---- MODULE Spec2Model ----
(***************************************************************************)
(* MNIST_Baseline.py: the orchestrator that trains one network under the   *)
(* standard regime and a second one under the reweight regime, driving the *)
(* trajectory plugin (trajectoryPlugin.plugin.API) at the end of every     *)
(* reweight epoch, and finally appends one metrics record to a file.       *)
(*                                                                         *)
(* The plugin (API.dataLoader, createTrajectory, clusterTrajectory,        *)
(* reweightData) is not part of MNIST_Baseline.py; its effect on the api   *)
(* object is modelled from the specification's sections 3, 4 and 7.        *)
(***************************************************************************)
EXTENDS Integers, Sequences, FiniteSets, TLC

\* ------------------------------------------------------------------ bounds
MaxEpochs == 3
MaxBurnIn == 3
MaxDataLen == 2
MaxNumCluster == 3
MaxWeight == 2

VARIABLES
    args,       \* the parsed command line: epochs, burn_in, num_cluster, batch_size, save_model
    datalen,    \* len(trainset) after the random split
    pc,         \* position of main()
    epoch,      \* the loop variable of the running regime loop (0: no epoch yet)
    batch_idx,  \* number of batches of the current epoch already trained
    mode,       \* model_standard.training / model_reweight.training
    params,     \* per model: number of optimizer steps applied to its parameters
    api,        \* the API object main() holds: weights, trajectories, cluster assignment
    metrics,    \* the twelve metric lists
    results,    \* the records appended to mnist_cnn_baseline.data
    exc,        \* the uncaught exception that ended main(), or "none"
    trace,      \* history: the operations train_* ran in the current epoch
    nRecord,    \* history: recording passes run on the current api
    nCluster,   \* history: clustering passes run on the current api
    nReweight   \* history: weight updates run on the current api

vars == <<args, datalen, pc, epoch, batch_idx, mode, params, api, metrics,
          results, exc, trace, nRecord, nCluster, nReweight>>

Regimes == {"standard", "reweight"}
ForwardTypes == {"train", "validation", "test"}
MetricKinds == {"loss", "accuracy"}
MetricNames == Regimes \X ForwardTypes \X MetricKinds
WeightLevels == 0..MaxWeight
Examples == 1..datalen
ClusterErrors == {"InsufficientDataError"}
Terminal == {"done", "aborted"}

\* len(api.train_loader): ceil(datalen / batch_size)
NumBatches == (datalen + args.batch_size - 1) \div args.batch_size

Max(a, b) == IF a > b THEN a ELSE b

\* --------------------------------------------------------- the plugin (API)
\* API(...); api.dataLoader(trainset, validset, batch_size): weights 1.0,
\* no trajectory, no cluster assignment (0: not assigned).
NewAPI ==
    [weights    |-> [i \in Examples |-> 1],
     trajectory |-> [i \in Examples |-> <<>>],
     cluster    |-> [i \in Examples |-> 0],
     unstable   |-> FALSE]

\* The signal vector of one recording pass: a summary of the model's outputs,
\* which the model's parameters (p optimizer steps so far) determine.
Signal(p) == p

createTrajectoryLastBatchOnly(a, p) ==
    [a EXCEPT !.trajectory =
        [i \in Examples |->
            IF i > (NumBatches - 1) * args.batch_size
            THEN Append(a.trajectory[i], Signal(p)) ELSE a.trajectory[i]]]

\* api.createTrajectory(model): one signal vector appended per example, over
\* the entire dataset.
createTrajectory(a, p) ==
    [a EXCEPT !.trajectory =
        [i \in Examples |-> Append(a.trajectory[i], Signal(p))]]

\* api.clusterTrajectory(): the outcomes of one clustering pass.
\*   "raise": fewer examples than clusters (InsufficientDataError);
\*   otherwise an assignment of every example to one of num_cluster
\*   clusters, or a covariance collapse (unstable), which is reported and
\*   makes the pass fall back to uniform weights.
clusterTrajectory(a) ==
    IF datalen < args.num_cluster
    THEN {[raise |-> "InsufficientDataError", api |-> a]}
    ELSE {[raise |-> "none",
           api |-> [a EXCEPT !.cluster = c, !.unstable = FALSE]] :
              c \in [Examples -> 1..args.num_cluster]}
         \cup
         {[raise |-> "none",
           api |-> [a EXCEPT !.cluster = [i \in Examples |-> 0],
                             !.unstable = TRUE]]}

\* the cluster ids the current assignment uses
UsedClusters(a) == {a.cluster[i] : i \in Examples}

\* the per-cluster weights a reweighting pass may produce: finite, non-negative
ClusterWeights(a) == [UsedClusters(a) -> WeightLevels]

\* api.reweightData(model, 1e6): every example gets the weight of its
\* cluster (w: cluster id -> weight); uniform weights after an unstable pass.
reweightData(a, w) ==
    [a EXCEPT !.weights =
        [i \in Examples |-> IF a.unstable THEN 1 ELSE w[a.cluster[i]]]]

\* ------------------------------------------------------------------- Init
Init ==
    /\ args \in [epochs      : 0..MaxEpochs,
                 burn_in     : 0..MaxBurnIn,
                 num_cluster : 2..MaxNumCluster,
                 batch_size  : 1..MaxDataLen,
                 save_model  : BOOLEAN]
    /\ datalen \in 1..MaxDataLen
    /\ pc = "std_loop"
    /\ epoch = 0
    /\ batch_idx = 0
    /\ mode = [r \in Regimes |-> "train"]
    /\ params = [r \in Regimes |-> 0]
    /\ api = NewAPI
    /\ metrics = [m \in MetricNames |-> <<>>]
    /\ results = <<>>
    /\ exc = "none"
    /\ trace = <<>>
    /\ nRecord = 0
    /\ nCluster = 0
    /\ nReweight = 0

\* ------------------------------------------------------------ forward_fn
FwdPc(r, t) ==
    CASE r = "standard" /\ t = "train"      -> "std_fwd_train"
      [] r = "standard" /\ t = "validation" -> "std_fwd_valid"
      [] r = "standard" /\ t = "test"       -> "std_fwd_test"
      [] r = "reweight" /\ t = "train"      -> "rw_fwd_train"
      [] r = "reweight" /\ t = "validation" -> "rw_fwd_valid"
      [] r = "reweight" /\ t = "test"       -> "rw_fwd_test"

\* where main() continues after the forward pass of type t
AfterFwd(r, t) ==
    CASE t = "train"      -> FwdPc(r, "validation")
      [] t = "validation" -> FwdPc(r, "test")
      [] t = "test"       -> IF r = "standard" THEN "std_loop" ELSE "rw_loop"

forward_fnWithStep(r) ==
    /\ mode' = [mode EXCEPT ![r] = "eval"]
    /\ params' = [params EXCEPT ![r] = @ + 1]

\* forward_fn(model, device, api, forward_type): model.eval(), then forward
\* passes under torch.no_grad(); no optimizer step.
forward_fn(r) ==
    /\ mode' = [mode EXCEPT ![r] = "eval"]
    /\ params' = params

\* loss, accuracy = forward_fn(...); <r>_<t>_loss.append(loss);
\* <r>_<t>_accuracy.append(accuracy). The value is what the epoch's model
\* (its parameters) yields.
Evaluate(r, t) ==
    /\ pc = FwdPc(r, t)
    /\ forward_fn(r)
    /\ metrics' = [m \in MetricNames |->
                     IF m[1] = r /\ m[2] = t
                     THEN Append(metrics[m], [epoch |-> epoch, params |-> params[r]])
                     ELSE metrics[m]]
    /\ pc' = AfterFwd(r, t)
    /\ UNCHANGED <<args, datalen, epoch, batch_idx, api, results, exc, trace,
                   nRecord, nCluster, nReweight>>

\* -------------------------------------------------------- standard regime
\* for epoch in range(1, args.epochs + 1): train_standard(...): model.train()
StandardEpochBegin ==
    /\ pc = "std_loop"
    /\ epoch < args.epochs
    /\ epoch' = epoch + 1
    /\ batch_idx' = 0
    /\ mode' = [mode EXCEPT !["standard"] = "train"]
    /\ trace' = <<>>
    /\ pc' = "std_batch"
    /\ UNCHANGED <<args, datalen, params, api, metrics, results, exc,
                   nRecord, nCluster, nReweight>>

\* one iteration of train_standard's batch loop: zero_grad, forward, loss,
\* backward, optimizer.step()
TrainStandardBatch ==
    /\ pc = "std_batch"
    /\ batch_idx < NumBatches
    /\ params' = [params EXCEPT !["standard"] = @ + 1]
    /\ batch_idx' = batch_idx + 1
    /\ trace' = Append(trace, [op |-> "batch", mode |-> mode["standard"]])
    /\ UNCHANGED <<args, datalen, pc, epoch, mode, api, metrics, results, exc,
                   nRecord, nCluster, nReweight>>

TrainStandardReturnReweights ==
    /\ pc = "std_batch"
    /\ batch_idx = NumBatches
    /\ \E o \in clusterTrajectory(createTrajectory(api, params["standard"])) :
       \E w \in ClusterWeights(o.api) :
          api' = IF o.raise = "none" THEN reweightData(o.api, w) ELSE api
    /\ pc' = "std_fwd_train"
    /\ UNCHANGED <<args, datalen, epoch, batch_idx, mode, params, metrics,
                   results, exc, trace, nRecord, nCluster, nReweight>>

\* train_standard returns once its batch loop is exhausted
TrainStandardReturn ==
    /\ pc = "std_batch"
    /\ batch_idx = NumBatches
    /\ pc' = "std_fwd_train"
    /\ UNCHANGED <<args, datalen, epoch, batch_idx, mode, params, api, metrics,
                   results, exc, trace, nRecord, nCluster, nReweight>>

\* the standard loop is exhausted: api = API(...); api.dataLoader(...)
StandardLoopExit ==
    /\ pc = "std_loop"
    /\ epoch >= args.epochs
    /\ api' = NewAPI
    /\ epoch' = 0
    /\ batch_idx' = 0
    /\ trace' = <<>>
    /\ nRecord' = 0
    /\ nCluster' = 0
    /\ nReweight' = 0
    /\ pc' = "rw_loop"
    /\ UNCHANGED <<args, datalen, mode, params, metrics, results, exc>>

\* -------------------------------------------------------- reweight regime
\* for epoch in range(1, args.epochs + 1): train_reweight(...): model.train()
ReweightEpochBegin ==
    /\ pc = "rw_loop"
    /\ epoch < args.epochs
    /\ epoch' = epoch + 1
    /\ batch_idx' = 0
    /\ mode' = [mode EXCEPT !["reweight"] = "train"]
    /\ trace' = <<>>
    /\ pc' = "rw_batch"
    /\ UNCHANGED <<args, datalen, params, api, metrics, results, exc,
                   nRecord, nCluster, nReweight>>

\* one iteration of train_reweight's batch loop
TrainReweightBatch ==
    /\ pc = "rw_batch"
    /\ batch_idx < NumBatches
    /\ params' = [params EXCEPT !["reweight"] = @ + 1]
    /\ batch_idx' = batch_idx + 1
    /\ trace' = Append(trace, [op |-> "batch", mode |-> mode["reweight"]])
    /\ UNCHANGED <<args, datalen, pc, epoch, mode, api, metrics, results, exc,
                   nRecord, nCluster, nReweight>>

PastBurnInOffByOne == epoch >= args.burn_in

\* if epoch > args.burn_in:
PastBurnIn == epoch > args.burn_in

\* the mode createTrajectory runs the model in (inference mode)
RecordingMode == "eval"

CreateTrajectoryStepGated ==
    /\ pc = "rw_batch"
    /\ batch_idx = NumBatches
    /\ IF epoch > args.burn_in
       THEN /\ api' = createTrajectory(api, params["reweight"])
            /\ mode' = [mode EXCEPT !["reweight"] = RecordingMode]
            /\ trace' = Append(trace, [op |-> "record", mode |-> RecordingMode])
            /\ nRecord' = nRecord + 1
       ELSE UNCHANGED <<api, mode, trace, nRecord>>
    /\ pc' = "rw_check"
    /\ UNCHANGED <<args, datalen, epoch, batch_idx, params, metrics, results,
                   exc, nCluster, nReweight>>

\* after the batch loop, unconditionally: api.createTrajectory(model)
CreateTrajectoryStep ==
    /\ pc = "rw_batch"
    /\ batch_idx = NumBatches
    /\ api' = createTrajectory(api, params["reweight"])
    /\ mode' = [mode EXCEPT !["reweight"] = RecordingMode]
    /\ trace' = Append(trace, [op |-> "record", mode |-> RecordingMode])
    /\ nRecord' = nRecord + 1
    /\ pc' = "rw_check"
    /\ UNCHANGED <<args, datalen, epoch, batch_idx, params, metrics, results,
                   exc, nCluster, nReweight>>

\* epoch <= burn_in: train_reweight returns without clustering
BurnInSkip ==
    /\ pc = "rw_check"
    /\ ~PastBurnIn
    /\ pc' = "rw_fwd_train"
    /\ UNCHANGED <<args, datalen, epoch, batch_idx, mode, params, api, metrics,
                   results, exc, trace, nRecord, nCluster, nReweight>>

\* epoch > burn_in: api.clusterTrajectory(). Neither train_reweight nor
\* main() has a handler: an exception it raises ends main().
ClusterStep ==
    /\ pc = "rw_check"
    /\ PastBurnIn
    /\ \E o \in clusterTrajectory(api) :
          IF o.raise = "none"
          THEN /\ api' = o.api
               /\ pc' = "rw_reweight"
               /\ exc' = exc
          ELSE /\ api' = api
               /\ pc' = "aborted"
               /\ exc' = o.raise
    /\ trace' = Append(trace, [op |-> "cluster", mode |-> mode["reweight"]])
    /\ nCluster' = nCluster + 1
    /\ UNCHANGED <<args, datalen, epoch, batch_idx, mode, params, metrics,
                   results, nRecord, nReweight>>

\* api.reweightData(model, 1e6), then train_reweight returns
ReweightStep ==
    /\ pc = "rw_reweight"
    /\ \E w \in ClusterWeights(api) :
          api' = reweightData(api, w)
    /\ trace' = Append(trace, [op |-> "reweight", mode |-> mode["reweight"]])
    /\ nReweight' = nReweight + 1
    /\ pc' = "rw_fwd_train"
    /\ UNCHANGED <<args, datalen, epoch, batch_idx, mode, params, metrics,
                   results, exc, nRecord, nCluster>>

\* the reweight loop is exhausted
ReweightLoopExit ==
    /\ pc = "rw_loop"
    /\ epoch >= args.epochs
    /\ pc' = "save_check"
    /\ UNCHANGED <<args, datalen, epoch, batch_idx, mode, params, api, metrics,
                   results, exc, trace, nRecord, nCluster, nReweight>>

\* ------------------------------------------------------------ end of main
\* if (args.save_model): torch.save(model.state_dict(), ...): main() binds
\* model_standard and model_reweight, never `model`: NameError, uncaught.
SaveModel ==
    /\ pc = "save_check"
    /\ args.save_model
    /\ exc' = "NameError"
    /\ pc' = "aborted"
    /\ UNCHANGED <<args, datalen, epoch, batch_idx, mode, params, api, metrics,
                   results, trace, nRecord, nCluster, nReweight>>

\* res = vars(args); res.update(...) x 13; f.write(json.dumps(res) + '\n')
WriteResults ==
    /\ pc = "save_check"
    /\ ~args.save_model
    /\ results' = Append(results, [args |-> args, metrics |-> metrics])
    /\ pc' = "done"
    /\ UNCHANGED <<args, datalen, epoch, batch_idx, mode, params, api, metrics,
                   exc, trace, nRecord, nCluster, nReweight>>

Next ==
    \/ StandardEpochBegin
    \/ TrainStandardBatch
    \/ TrainStandardReturn
    \/ StandardLoopExit
    \/ ReweightEpochBegin
    \/ TrainReweightBatch
    \/ CreateTrajectoryStep
    \/ BurnInSkip
    \/ ClusterStep
    \/ ReweightStep
    \/ ReweightLoopExit
    \/ SaveModel
    \/ WriteResults
    \/ \E r \in Regimes, t \in ForwardTypes : Evaluate(r, t)

Spec == Init /\ [][Next]_vars

\* ------------------------------------------------------------- vocabulary
StdPcs == {"std_loop", "std_batch", "std_fwd_train", "std_fwd_valid", "std_fwd_test"}
InTrainReweight == pc \in {"rw_batch", "rw_check", "rw_reweight"}
InReweightRegime == pc \notin StdPcs
Uniform == \A i \in Examples : api.weights[i] = 1
Ops == [k \in 1..Len(trace) |-> trace[k].op]
LastOp == IF trace = <<>> THEN "none" ELSE trace[Len(trace)].op
\* the operations of one complete epoch past burn-in, in order
FullEpochOps ==
    [k \in 1..NumBatches |-> "batch"] \o <<"record", "cluster", "reweight">>
IsPrefix(s, t) == Len(s) <= Len(t) /\ s = SubSeq(t, 1, Len(s))
\* the epochs whose values a metric list holds, in list order
EpochsOf(list) == [k \in 1..Len(list) |-> list[k].epoch]
OneToEpochs == [k \in 1..args.epochs |-> k]

\* ------------------------------------------------------------------ claims

\* C1: in the reweight regime every weight is still 1.0 throughout every
\* epoch e <= burn_in (no reweighting is performed in it), and when
\* burn_in >= epochs the weight vector is uniform 1.0 in every reachable
\* state of the run.
C1_WarmupWeightsUniform ==
    /\ (InReweightRegime /\ epoch <= args.burn_in) => (Uniform /\ nReweight = 0)
    /\ args.burn_in >= args.epochs => Uniform

\* a warmup epoch (the last one) has trained and recorded and is being evaluated
C1_Witness ==
    /\ pc = "rw_fwd_test"
    /\ epoch = args.burn_in
    /\ epoch >= 2
    /\ datalen >= args.num_cluster
    /\ params["reweight"] > 0

C3_EpochOpsOnceInOrder ==
    (InReweightRegime /\ epoch > args.burn_in) =>
        IF InTrainReweight
        THEN IsPrefix(Ops, FullEpochOps)
        ELSE Ops = FullEpochOps

\* C4: every trajectory has as many entries as recording passes have run; a
\* step either leaves a trajectory alone or is a recording pass that appends
\* exactly one entry to it; no step shortens one.
C4_TrajectoryLengthIsPasses ==
    /\ [](\A i \in Examples : Len(api.trajectory[i]) = nRecord)
    /\ [][\A i \in Examples :
            \/ api'.trajectory[i] = api.trajectory[i]
            \/ /\ nRecord' = nRecord + 1
               /\ Len(api'.trajectory[i]) = Len(api.trajectory[i]) + 1
               /\ IsPrefix(api.trajectory[i], api'.trajectory[i])]_vars

\* two recording passes have run over a dataset of several batches
C4_Witness ==
    /\ nRecord = 2
    /\ datalen = 2
    /\ NumBatches = 2
    /\ \A i \in Examples : Len(api.trajectory[i]) = 2

C6_WeightsChangedOnlyByReweight ==
    /\ [](pc \in StdPcs => Uniform)
    /\ [][api'.weights # api.weights =>
            (pc = "rw_reweight" /\ nReweight' = nReweight + 1)]_vars

\* a reweighting step has changed the weights
C6_Witness ==
    /\ pc = "rw_fwd_train"
    /\ LastOp = "reweight"
    /\ ~Uniform

\* C7: a failed clustering pass does not abort the run: the remaining epochs
\* up to the configured count still execute.
C7_ClusterFailureDoesNotAbort ==
    exc \in ClusterErrors =>
        /\ pc # "aborted"
        /\ pc \in Terminal =>
              EpochsOf(metrics[<<"reweight", "test", "loss">>]) = OneToEpochs

\* C8: when the run has ended, each regime has executed exactly the epochs
\* 1..epochs in increasing order, the reweight regime has run exactly
\* max(0, epochs - burn_in) clustering passes and as many weight updates;
\* the standard regime is complete whenever the reweight regime is running.
C8_RegimesRunAllEpochs ==
    /\ InReweightRegime =>
          \A t \in ForwardTypes, k \in MetricKinds :
             EpochsOf(metrics[<<"standard", t, k>>]) = OneToEpochs
    /\ pc \in Terminal =>
          /\ \A t \in ForwardTypes, k \in MetricKinds :
                EpochsOf(metrics[<<"reweight", t, k>>]) = OneToEpochs
          /\ nCluster = Max(0, args.epochs - args.burn_in)
          /\ nReweight = Max(0, args.epochs - args.burn_in)

C10_OneRecordWritten ==
    (pc \in Terminal /\ exc \notin ClusterErrors) =>
        /\ Len(results) = 1
        /\ \A m \in MetricNames : EpochsOf(results[1].metrics[m]) = OneToEpochs
====
